---- MODULE Spec2Model ----
(***************************************************************************)
(* A model of the Codex assistant (src/codex.py): the tool registry, the   *)
(* tool handlers, the response parser / dispatcher (process_request) and   *)
(* the interactive loop (run_interactive).                                 *)
(*                                                                         *)
(* A model reply is a sequence of tokens: "F" is a run of three backticks, *)
(* "J" the literal text json, "WS" whitespace, "TXT" narrative text, and   *)
(* every other token the text of one JSON document (or of a malformed      *)
(* one).  The opening fence of a tool-call block is "F" followed by "J".   *)
(***************************************************************************)
EXTENDS Integers, Sequences, FiniteSets, TLC

VARIABLES
    pc,            \* where the program is: input, request, extract, dispatch, display, return, exited, stopped
    lines,         \* run_interactive: the lines collected in the current turn
    submitted,     \* run_interactive: the user turns handed to process_request
    reads,         \* run_interactive: how many times input() has returned
    line,          \* run_interactive: the line input() returned last
    user_input,    \* process_request: its argument
    requests,      \* the message lists sent to the model API
    content,       \* process_request: the model's reply
    json_matches,  \* process_request: the captured blocks (re.findall)
    idx,           \* process_request: the block the for-loop is at
    out,           \* everything printed, in order
    calls,         \* every tool_func(**params) call made, in order
    fs,            \* the filesystem the handlers act on
    docker,        \* the container runtime: whether it answers, and its containers
    web,           \* the web server a fetch goes to
    sigint         \* an interrupt signal has been delivered to the process

vars == <<pc, lines, submitted, reads, line, docker, web, sigint, user_input, requests, content, json_matches, idx, out, calls, fs,
          docker, web, sigint>>

\* ---------------------------------------------------------------- bounds

MaxSegs == 3

MaxReads == 5

\* ---------------------------------------------------------------- sequences

RECURSIVE SeqsUpTo(_, _)
SeqsUpTo(S, n) ==
    IF n = 0 THEN {<<>>}
    ELSE LET shorter == SeqsUpTo(S, n - 1)
         IN  shorter \cup {Append(s, x) : s \in {t \in shorter : Len(t) = n - 1}, x \in S}

RECURSIVE Flatten(_)
Flatten(ss) == IF ss = <<>> THEN <<>> ELSE Head(ss) \o Flatten(Tail(ss))

\* ---------------------------------------------------------------- text

\* str.strip() on a token sequence: whitespace tokens go from both ends.
RECURSIVE LStrip(_)
LStrip(s) == IF s # <<>> /\ Head(s) = "WS" THEN LStrip(Tail(s)) ELSE s

RECURSIVE RStrip(_)
RStrip(s) ==
    IF s # <<>> /\ s[Len(s)] = "WS" THEN RStrip(SubSeq(s, 1, Len(s) - 1)) ELSE s

Strip(s) == RStrip(LStrip(s))

\* "```json" in content
HasJsonFence(s) == \E i \in 1..(Len(s) - 1) : s[i] = "F" /\ s[i + 1] = "J"

\* ---------------------------------------------------------------- the regex

\* The first closing fence at or after position k (0: none).  The group is
\* lazy, so the match ends at the first run of three backticks.
\* The same for a pattern that lets the end of the text close a block.
RECURSIVE CloserOrEnd(_, _)
CloserOrEnd(s, k) ==
    IF k > Len(s) THEN Len(s)
    ELSE IF s[k] = "F" THEN k
    ELSE CloserOrEnd(s, k + 1)

RECURSIVE Closer(_, _)
Closer(s, k) ==
    IF k > Len(s) THEN 0
    ELSE IF s[k] = "F" THEN k
    ELSE Closer(s, k + 1)

\* r"```json\s*([\s\S]*?)\s*```" tried at position i: the span it matches
\* and the group it captures (whitespace on both sides goes to the \s*).
MatchAt(s, i) ==
    IF i + 1 <= Len(s) /\ s[i] = "F" /\ s[i + 1] = "J" /\ Closer(s, i + 2) # 0
    THEN [start |-> i, stop |-> Closer(s, i + 2),
          group |-> Strip(SubSeq(s, i + 2, Closer(s, i + 2) - 1))]
    ELSE [start |-> 0, stop |-> 0, group |-> <<>>]

\* The non-overlapping matches, scanning left to right from position i.
RECURSIVE Scan(_, _)
Scan(s, i) ==
    IF i > Len(s) THEN <<>>
    ELSE LET m == MatchAt(s, i)
         IN  IF m.start # 0 THEN <<m>> \o Scan(s, m.stop + 1)
             ELSE Scan(s, i + 1)

\* re.findall(json_pattern, content): the captured groups.
FindAll(s) == [k \in 1..Len(Scan(s, 1)) |-> Scan(s, 1)[k].group]

\* re.sub(json_pattern, "", content): the text outside every match.
RECURSIVE SubFrom(_, _)
SubFrom(s, i) ==
    IF i > Len(s) THEN <<>>
    ELSE LET m == MatchAt(s, i)
         IN  IF m.start # 0 THEN SubFrom(s, m.stop + 1)
             ELSE <<s[i]>> \o SubFrom(s, i + 1)

ReSub(s) == SubFrom(s, 1)

\* clean_content = re.sub(json_pattern, "", content).strip()
\* The same without the .strip().
CleanContentUnstripped(s) == ReSub(s)

CleanContent(s) == Strip(ReSub(s))


\* ---------------------------------------------------------------- JSON

\* Argument values: "None" is JSON null, "<int>" a number, "<list>" an array;
\* every other value is a string.
IsStr(v) == v \notin {"None", "<int>", "<list>"}

\* The paths the handlers are given.
DIR == "/tmp/x"

FILE == "/tmp/x/y.txt"

SPARE == "/tmp/z.txt"

Paths == {DIR, FILE, SPARE}

\* A JSON document: its kind, whether Python's `"tool" in doc` holds, the
\* value under its "tool" key, and its "params" (absent, a mapping given as a
\* set of <<name, value>> pairs, or a value that is no mapping).
Doc(kind, hasTool, tool, pkind, params) ==
    [kind |-> kind, hasTool |-> hasTool, tool |-> tool, pkind |-> pkind, params |-> params]

NoDoc == Doc("bad", FALSE, "", "absent", {})

\* The JSON texts a reply may carry, by token.
PayloadDoc(t) ==
    CASE t = "p_num"       -> Doc("num", FALSE, "", "absent", {})           \* 5
      [] t = "p_str"       -> Doc("str", FALSE, "", "absent", {})           \* "abc"
      [] t = "p_notool"    -> Doc("obj", FALSE, "", "mapping", {})          \* {"params": {}}
      [] t = "p_unknown"   -> Doc("obj", TRUE, "rm_rf", "mapping", {})      \* {"tool": "rm_rf", "params": {}}
      [] t = "p_tool_list" -> Doc("obj", TRUE, "<list>", "absent", {})      \* {"tool": ["shell_command"]}
      [] t = "p_sh"        -> Doc("obj", TRUE, "shell_command", "mapping", {<<"command", "ls">>})
      [] t = "p_sh_noarg"  -> Doc("obj", TRUE, "shell_command", "absent", {})
      [] t = "p_sh_none"   -> Doc("obj", TRUE, "shell_command", "mapping", {<<"command", "None">>})
      [] OTHER             -> NoDoc                                         \* {tool: x}

Payloads ==
    {"p_bad", "p_num", "p_str", "p_notool", "p_unknown", "p_tool_list",
     "p_sh", "p_sh_noarg", "p_sh_none"}

\* json.loads(json_str): one JSON document and nothing else parses to it
\* (digits next to digits are one number); anything else (no text, narrative
\* text, two documents) raises JSONDecodeError, returned here as NoDoc.
Loads(group) ==
    IF Len(group) = 1 /\ group[1] \in Payloads THEN PayloadDoc(group[1])
    ELSE IF group # <<>> /\ \A k \in 1..Len(group) : group[k] = "p_num" THEN PayloadDoc("p_num")
    ELSE NoDoc


\* ---------------------------------------------------------------- the registry

\* self.tools: the names the registry maps to a handler.
tools ==
    {"file_operations", "shell_command", "search_docs", "code_completion", "web_browse",
     "code_generation", "vscode", "github", "huggingface", "docker", "install_package",
     "open_service", "list_services"}

\* The parameters each handler declares without a default.
Required(tool) ==
    CASE tool = "file_operations" -> {"operation", "path"}
      [] tool = "shell_command"   -> {"command"}
      [] tool = "search_docs"     -> {"query"}
      [] tool = "code_completion" -> {"code"}
      [] tool = "web_browse"      -> {"url"}
      [] tool = "code_generation" -> {"description"}
      [] tool = "github"          -> {"action"}
      [] tool = "huggingface"     -> {"action"}
      [] tool = "docker"          -> {"action"}
      [] tool = "install_package" -> {"package_name"}
      [] OTHER                    -> {}

\* The parameters each handler declares with a default.
Optional(tool) ==
    CASE tool = "file_operations" -> {"content"}
      [] tool = "code_completion" -> {"language"}
      [] tool = "web_browse"      -> {"action"}
      [] tool = "code_generation" -> {"language", "file_path"}
      [] tool = "vscode"          -> {"path", "new_window"}
      [] tool = "github"          -> {"repo_path", "remote_url", "branch", "commit_message"}
      [] tool = "huggingface"     -> {"model_id", "task", "inputs"}
      [] tool = "docker"          -> {"container", "image", "ports", "env", "command"}
      [] tool = "install_package" -> {"manager"}
      [] tool = "open_service"    -> {"service_name", "path"}
      [] OTHER                    -> {}

Keys(kw) == {p[1] : p \in kw}

Get(kw, k, default) == IF k \in Keys(kw) THEN (CHOOSE p \in kw : p[1] = k)[2] ELSE default

\* Python binds tool_func(**kw): a missing parameter or an unexpected keyword
\* raises TypeError before the handler's body runs.
Binds(tool, kw) ==
    /\ Required(tool) \subseteq Keys(kw)
    /\ Keys(kw) \subseteq Required(tool) \cup Optional(tool)

\* ---------------------------------------------------------------- the handlers

\* The fields of a returned mapping besides its status: the message (as its
\* words), the url, and the content of a fetch (how many characters of the
\* page text it holds, and whether the truncation marker follows them).
Ret(message, url, taken, marker) ==
    [message |-> message, url |-> url, content |-> [taken |-> taken, marker |-> marker]]

NoRet == Ret(<<>>, <<>>, 0, FALSE)

\* What a call does: the status of the mapping it returns ("raise": it
\* returns nothing, an exception leaves it), the external actions it took, in
\* order, and the filesystem it leaves.
Outcome(status, acts, f) == [status |-> status, acts |-> acts, fs |-> f, ret |-> NoRet]

\* The same for a handler whose returned mapping is looked at.
OutcomeRet(status, acts, f, ret) == [status |-> status, acts |-> acts, fs |-> f, ret |-> ret]

Node(f, p) == IF p \in Paths THEN f[p] ELSE "absent"

IsFile(f, p) == Node(f, p) \notin {"absent", "dir"}

Put(f, p, node) == IF p \in Paths THEN [f EXCEPT ![p] = node] ELSE f

\* The directory a path lies in is there (FILE lies in DIR; the other paths
\* lie in directories that always exist).
ParentIsDir(f, p) == p = FILE => f[DIR] = "dir"

\* shell_command: subprocess.run(command, shell=True, check=True, ...).  A
\* command that is no string (or list) raises TypeError before any process
\* is spawned, and only CalledProcessError is caught.
shell_command(kw, f) ==
    LET command == Get(kw, "command", "None")
    IN  IF command \in {"None", "<int>"}
        THEN {Outcome("raise", <<>>, f)}
        ELSE {Outcome("success", <<"spawn">>, f), Outcome("error", <<"spawn">>, f)}

\* file_operations: write.
\* The same without path_obj.parent.mkdir(parents=True, exist_ok=True).
FileWriteNoParents(path, data, f) ==
    IF ~ParentIsDir(f, path) \/ ~IsStr(data) \/ Node(f, path) = "dir"
    THEN {Outcome("error", <<>>, f)}
    ELSE {Outcome("success", <<"write">>, Put(f, path, data))}

FileWrite(path, data, f) ==
    LET made   == path = FILE /\ f[DIR] = "absent"
        f1     == IF made THEN [f EXCEPT ![DIR] = "dir"] ELSE f
        mkacts == IF made THEN <<"mkdir">> ELSE <<>>
    IN  IF ~ParentIsDir(f1, path) THEN {Outcome("error", <<>>, f)}
        ELSE IF ~IsStr(data) THEN {Outcome("error", mkacts, f1)}
        ELSE IF Node(f1, path) = "dir" THEN {Outcome("error", mkacts, f1)}
        ELSE {Outcome("success", Append(mkacts, "write"), Put(f1, path, data))}

\* file_operations: copy (shutil.copy2(path, content)).
FileCopy(path, dest, f) ==
    IF ~IsStr(dest) \/ ~IsFile(f, path) THEN {Outcome("error", <<>>, f)}
    ELSE IF Node(f, dest) = "dir"
    THEN IF path = FILE /\ dest = DIR THEN {Outcome("error", <<>>, f)}
         ELSE {Outcome("success", <<"copy">>, f)}
    ELSE IF dest = path \/ ~ParentIsDir(f, dest) THEN {Outcome("error", <<>>, f)}
    ELSE {Outcome("success", <<"copy">>, Put(f, dest, Node(f, path)))}

\* file_operations: delete.
FileDelete(path, f) ==
    IF IsFile(f, path) THEN {Outcome("success", <<"unlink">>, Put(f, path, "absent"))}
    ELSE IF Node(f, path) = "dir"
    THEN {Outcome("success", <<"rmtree">>, [f EXCEPT ![DIR] = "absent", ![FILE] = "absent"])}
    ELSE {Outcome("success", <<>>, f)}

\* file_operations: Path(path) stands before every try.
file_operations(kw, f) ==
    LET operation == Get(kw, "operation", "None")
        path      == Get(kw, "path", "None")
        data      == Get(kw, "content", "None")
    IN  IF ~IsStr(path) THEN {Outcome("raise", <<>>, f)}
        ELSE IF operation = "read"
        THEN {Outcome(IF IsFile(f, path) THEN "success" ELSE "error", <<>>, f)}
        ELSE IF operation = "write" THEN FileWrite(path, data, f)
        ELSE IF operation = "list"
        THEN {Outcome(IF Node(f, path) = "dir" THEN "success" ELSE "error", <<>>, f)}
        ELSE IF operation = "copy" THEN FileCopy(path, data, f)
        ELSE IF operation = "delete" THEN FileDelete(path, f)
        ELSE {Outcome("error", <<>>, f)}

\* install_package: the managers of its command table.
\* The same table with one more manager in it.
ManagersWithYum == {"pip", "npm", "brew", "gem", "apt", "yum"}

Managers == {"pip", "npm", "brew", "gem", "apt"}

\* install_package: the lookup in the table stands before the try, and a
\* manager that cannot be hashed raises there.  Inside the try one
\* subprocess.run(commands[manager] + [package_name], check=True): a package
\* name that is no string raises TypeError before a process is spawned, and
\* so does a manager whose program is not installed (FileNotFoundError);
\* both are caught by `except Exception`.
install_package(kw, f) ==
    LET package_name == Get(kw, "package_name", "None")
        manager      == Get(kw, "manager", "pip")
    IN  IF manager = "<list>" THEN {Outcome("raise", <<>>, f)}
        ELSE IF manager \notin Managers
        THEN {OutcomeRet("error", <<>>, f,
                         Ret(<<"Unknown package manager:", manager>>, <<>>, 0, FALSE))}
        ELSE IF ~IsStr(package_name)
        THEN {OutcomeRet("error", <<>>, f,
                         Ret(<<"expected str, bytes or os.PathLike object">>, <<>>, 0, FALSE))}
        ELSE {OutcomeRet("success", <<"spawn">>, f,
                         Ret(<<"Installed", package_name, "using", manager>>, <<>>, 0, FALSE)),
              OutcomeRet("error", <<"spawn">>, f,
                         Ret(<<"Installation error:">>, <<>>, 0, FALSE)),
              OutcomeRet("error", <<>>, f,
                         Ret(<<"No such file or directory:", manager>>, <<>>, 0, FALSE))}

\* list_services: list_all_services() inside try / except Exception.
list_services(kw, f) ==
    {Outcome("success", <<"spawn">>, f), Outcome("error", <<"spawn">>, f),
     Outcome("error", <<>>, f)}

\* ---------------------------------------------------------------- docker_utils

\* Host mappings as `docker container port` prints them, as their text cut
\* at the colons: an IPv4 address and an IPv6 address, each with a port.
V4 == <<"0.0.0.0", ":", "8080">>

V4B == <<"127.0.0.1", ":", "3000">>

V6 == <<"[", ":", ":", "]", ":", "8080">>

\* One line of `docker container port`: containerPort -> hostMapping.
PortLine(cport, hm) == [cport |-> cport, hm |-> hm]

\* One container as `docker ps` reports it.  A stopped container is listed
\* by `docker ps -a` only and publishes no port.
Container(name, running, ports) == [Names |-> name, ID |-> name, running |-> running, ports |-> ports]

\* str.split(':')
RECURSIVE SplitColon(_)
SplitColon(s) ==
    IF \A k \in 1..Len(s) : s[k] # ":" THEN <<s>>
    ELSE LET k == CHOOSE i \in 1..Len(s) : s[i] = ":" /\ \A j \in 1..(i - 1) : s[j] # ":"
         IN  <<SubSeq(s, 1, k - 1)>> \o SplitColon(SubSeq(s, k + 1, Len(s)))

\* port_map[container_port] = host_mapping: a later line for the same
\* container port replaces the value and keeps the key's place.
DictSet(d, k, v) ==
    IF \E i \in 1..Len(d) : d[i].k = k
    THEN [i \in 1..Len(d) |-> IF d[i].k = k THEN [k |-> k, v |-> v] ELSE d[i]]
    ELSE Append(d, [k |-> k, v |-> v])

RECURSIVE PortMap(_, _)
PortMap(plines, d) ==
    IF plines = <<>> THEN d
    ELSE PortMap(Tail(plines), DictSet(d, Head(plines).cport, Head(plines).hm))

\* get_all_containers: a failing `docker ps` is caught and gives no
\* container.
get_all_containers(d, running_only) ==
    IF d.daemon # "ok" THEN <<>>
    ELSE SelectSeq(d.containers, LAMBDA c : c.running \/ ~running_only)

\* get_container_by_name: the first container of `docker ps -a` with that
\* name (<<>>: None).
get_container_by_name(d, name) ==
    LET found == SelectSeq(get_all_containers(d, FALSE), LAMBDA c : c.Names = name)
    IN  IF found = <<>> THEN <<>> ELSE <<Head(found)>>

\* get_port_mappings: a failing `docker container port` is caught and gives
\* no mapping.
get_port_mappings(d, c) == IF d.daemon # "ok" THEN <<>> ELSE PortMap(c.ports, <<>>)

\* `if not port_mappings`
\* The same test never taken.
NoMappingsNever(pm) == FALSE

NoMappings(pm) == pm = <<>>

\* f"http://{host}:{port}{path}"
Url(host, port, path) == <<"http://">> \o host \o <<":">> \o port \o <<path>>

\* open_web_service.  host, port = host_mapping.split(':') raises ValueError
\* unless the mapping has exactly one colon.
open_web_service(d, service_name, path, f) ==
    LET container == get_container_by_name(d, service_name)
        pm        == get_port_mappings(d, container[1])
        parts     == SplitColon(pm[1].v)
    IN  IF container = <<>>
        THEN {OutcomeRet("error", <<"spawn">>, f,
                         Ret(<<"Service", service_name, "not found">>, <<>>, 0, FALSE))}
        ELSE IF NoMappings(pm)
        THEN {OutcomeRet("error", <<"spawn", "spawn">>, f,
                         Ret(<<"No port mappings for", service_name>>, <<>>, 0, FALSE))}
        ELSE IF pm = <<>>
        THEN {OutcomeRet("error", <<"spawn", "spawn">>, f,
                         Ret(<<"Failed to find a valid port mapping">>, <<>>, 0, FALSE))}
        ELSE IF Len(parts) # 2
        THEN {Outcome("raise", <<"spawn", "spawn">>, f)}
        ELSE {OutcomeRet("success", <<"spawn", "spawn", "open">>, f,
                         Ret(<<"Opened">> \o Url(parts[1], parts[2], path),
                             Url(parts[1], parts[2], path), 0, FALSE))}

\* requests.get(url, timeout=timeout) against a server that answers, refuses
\* the connection, or accepts it and stays silent: a response, an exception,
\* or, with no timeout against a silent server, no return at all.
HttpGet(w, timeout) ==
    CASE w.server = "ok"      -> "response"
      [] w.server = "refuses" -> "exception"
      [] w.server = "silent"  -> IF timeout = "None" THEN "blocked" ELSE "exception"

\* check_service_health: the GET is made with timeout=5; the unpacking of
\* the host mapping stands outside the try.
check_service_health(d, w, service_name, port, path, f) ==
    LET container == get_container_by_name(d, service_name)
        pm        == get_port_mappings(d, container[1])
        parts     == SplitColon(pm[1].v)
        get       == HttpGet(w, "5")
    IN  IF container = <<>>
        THEN {OutcomeRet("error", <<"spawn">>, f,
                         Ret(<<"Service", service_name, "not found">>, <<>>, 0, FALSE))}
        ELSE IF port = "None" /\ pm = <<>>
        THEN {OutcomeRet("error", <<"spawn", "spawn">>, f,
                         Ret(<<"No port mappings for", service_name>>, <<>>, 0, FALSE))}
        ELSE IF port = "None" /\ Len(parts) # 2
        THEN {Outcome("raise", <<"spawn", "spawn">>, f)}
        ELSE LET acts == IF port = "None" THEN <<"spawn", "spawn", "get timeout=5">>
                         ELSE <<"spawn", "get timeout=5">>
                 url  == IF port = "None" THEN Url(parts[1], parts[2], path)
                         ELSE Url(<<"localhost">>, <<port>>, path)
             IN  IF get = "blocked" THEN {Outcome("blocked", acts, f)}
                 ELSE IF get = "exception"
                 THEN {OutcomeRet("error", acts, f, Ret(<<"Failed to connect">>, url, 0, FALSE))}
                 ELSE IF w.code < 400
                 THEN {OutcomeRet("success", acts, f,
                                  Ret(<<"Service", service_name, "is healthy">>, url, 0, FALSE))}
                 ELSE {OutcomeRet("error", acts, f,
                                  Ret(<<"Service returned status code">>, url, 0, FALSE))}

\* ---------------------------------------------------------------- handlers with a world

\* Python's truth test of an argument: None and the empty string are false.
\* The same test taking only None for false.
FalsyNoneOnly(v) == v = "None"

Falsy(v) == v \in {"None", ""}

\* open_service: the whole body is inside try / except Exception, which turns
\* an exception of docker_utils into a status=error mapping.
open_service(kw, f, d) ==
    LET service_name == Get(kw, "service_name", "None")
        path         == Get(kw, "path", "/")
        inner        == IF service_name \in {"webui", "open-webui"}
                        THEN open_web_service(d, "open-webui", "/", f)
                        ELSE IF service_name = "flowise"
                        THEN open_web_service(d, "flowise", "/", f)
                        ELSE open_web_service(d, service_name, path, f)
    IN  IF d.daemon = "missing"
        THEN {OutcomeRet("error", <<>>, f, Ret(<<"No such file or directory: 'docker'">>, <<>>, 0, FALSE))}
        ELSE IF Falsy(service_name) THEN list_services(kw, f)
        ELSE {IF o.status = "raise"
              THEN OutcomeRet("error", o.acts, f,
                              Ret(<<"too many values to unpack (expected 2)">>, <<>>, 0, FALSE))
              ELSE o : o \in inner}

max_length == 5000

\* text[:max_length] + "... [content truncated]" when len(text) > max_length,
\* for a text of n characters.
\* The same cutting a text of max_length characters too.
TruncateAtLimit(n) ==
    IF n >= max_length THEN [taken |-> max_length, marker |-> TRUE]
    ELSE [taken |-> n, marker |-> FALSE]

Truncate(n) ==
    IF n > max_length THEN [taken |-> max_length, marker |-> TRUE]
    ELSE [taken |-> n, marker |-> FALSE]

\* web_browse: requests.get(url, headers=headers) is made without a timeout.
web_browse(kw, f, w) ==
    LET url    == Get(kw, "url", "None")
        action == Get(kw, "action", "open")
        get    == HttpGet(w, "None")
    IN  IF action = "open"
        THEN {OutcomeRet("success", <<"open">>, f, Ret(<<"Opened", url, "in browser">>, <<>>, 0, FALSE))}
        ELSE IF action = "fetch"
        THEN IF get = "blocked" THEN {Outcome("blocked", <<"get">>, f)}
             ELSE IF get = "exception" THEN {Outcome("error", <<"get">>, f)}
             ELSE {OutcomeRet("success", <<"get">>, f,
                              Ret(<<>>, <<>>, Truncate(w.length).taken, Truncate(w.length).marker))}
        ELSE {OutcomeRet("error", <<>>, f, Ret(<<"Unknown action">>, <<>>, 0, FALSE))}

\* docker_operations: every action that names a container or an image tests
\* the argument before it builds the command.
docker_operations(kw, f) ==
    LET action    == Get(kw, "action", "None")
        container == Get(kw, "container", "None")
        image     == Get(kw, "image", "None")
        ports     == Get(kw, "ports", "None")
        ran       == {Outcome("success", <<"spawn">>, f), Outcome("error", <<"spawn">>, f)}
    IN  IF action \in {"ps", "images"} THEN ran
        ELSE IF action = "run"
        THEN IF Falsy(image)
             THEN {OutcomeRet("error", <<>>, f,
                              Ret(<<"Image name is required for run action">>, <<>>, 0, FALSE))}
             ELSE IF ports = "<int>" THEN {Outcome("error", <<>>, f)}
             ELSE ran
        ELSE IF action \in {"stop", "rm", "logs"}
        THEN IF Falsy(container)
             THEN {OutcomeRet("error", <<>>, f,
                              Ret(<<"Container name/ID is required for", action, "action">>, <<>>, 0, FALSE))}
             ELSE ran
        ELSE {OutcomeRet("error", <<>>, f, Ret(<<"Unknown Docker action:", action>>, <<>>, 0, FALSE))}

\* The handlers whose whole body is one try / except Exception: they return
\* a mapping whatever the external action does.
GuardedHandler(kw, f) ==
    {Outcome("success", <<"external">>, f), Outcome("error", <<"external">>, f),
     Outcome("error", <<>>, f)}

\* The handler's body, by registry name.
Body(tool, kw, f) ==
    CASE tool = "shell_command"   -> shell_command(kw, f)
      [] tool = "file_operations" -> file_operations(kw, f)
      [] tool = "install_package" -> install_package(kw, f)
      [] tool = "list_services"   -> list_services(kw, f)
      [] tool = "open_service"    -> open_service(kw, f, docker)
      [] tool = "web_browse"      -> web_browse(kw, f, web)
      [] tool = "docker"          -> docker_operations(kw, f)
      [] OTHER                    -> GuardedHandler(kw, f)

\* tool_func(**kw): "bind" is the TypeError of a call that does not bind.
Invoke(tool, kw, f) ==
    IF Binds(tool, kw) THEN Body(tool, kw, f) ELSE {Outcome("bind", <<>>, f)}


\* ---------------------------------------------------------------- process_request

\* One thing printed: its kind, the block it is about (0: none), the status
\* of a tool result, the text of a response.
Ev(kind, block, status, text) == [kind |-> kind, block |-> block, status |-> status, text |-> text]

\* One tool_func(**params) call: the block it came from, the handler, the
\* arguments, how it ended and the external actions it took.
Call(block, tool, kw, o) ==
    [block |-> block, tool |-> tool, kw |-> kw, status |-> o.status, acts |-> o.acts, ret |-> o.ret]

\* str.lower() of an input line.
Lower(l) ==
    CASE l = "EXIT" -> "exit"
      [] l = "Help" -> "help"
      [] OTHER      -> l

\* user_input.lower() == word
\* The same for a test that no input passes.
IsCommandNever(u, word) == FALSE

IsCommand(u, word) == Len(u) = 1 /\ Lower(u[1]) = word

SYSTEM_PROMPT == <<"You are Codex">>

\* messages: the system prompt, then the current input.
\* The same with the turns submitted earlier kept in front of the current one.
MessagesWithHistory(u) ==
    <<[role |-> "system", content |-> SYSTEM_PROMPT]>>
    \o [k \in 1..(Len(submitted) - 1) |-> [role |-> "user", content |-> submitted[k]]]
    \o <<[role |-> "user", content |-> u]>>

Messages(u) ==
    <<[role |-> "system", content |-> SYSTEM_PROMPT], [role |-> "user", content |-> u]>>

\* The statements of the tool-call branch in the order the function runs
\* them: the regex, the for-loop over the blocks, the display of the rest.
\* The same with the display of the rest moved before the for-loop.
DisplayFirst(stage) ==
    CASE stage = "extract"  -> "display"
      [] stage = "display"  -> "dispatch"
      [] stage = "dispatch" -> "return"

Successor(stage) ==
    CASE stage = "extract"  -> "dispatch"
      [] stage = "dispatch" -> "display"
      [] stage = "display"  -> "return"

\* What the loop body does with one parsed block: "parse_error" (the inner
\* except), "unknown" (the else branch), "call" (the if branch), or "fault":
\* an exception that is no JSONDecodeError and leaves the for-loop.
\* The same with every exception of the loop body leaving the for-loop.
ClassifyNoInnerExcept(doc) ==
    IF doc.kind \in {"bad", "num", "null"} THEN "fault"
    ELSE IF ~doc.hasTool THEN "unknown"
    ELSE IF doc.kind \in {"str", "arr"} \/ doc.tool = "<list>" THEN "fault"
    ELSE IF doc.tool \in tools THEN "call"
    ELSE "unknown"

\* The same with a lookup that hands every name to a handler.
ClassifyNoLookup(doc) ==
    IF doc.kind = "bad" THEN "parse_error"
    ELSE IF doc.kind \in {"num", "null"} THEN "fault"
    ELSE IF ~doc.hasTool THEN "unknown"
    ELSE IF doc.kind \in {"str", "arr"} \/ doc.tool = "<list>" THEN "fault"
    ELSE "call"

Classify(doc) ==
    IF doc.kind = "bad" THEN "parse_error"               \* json.loads raises JSONDecodeError
    ELSE IF doc.kind \in {"num", "null"} THEN "fault"    \* "tool" in 5: TypeError
    ELSE IF ~doc.hasTool THEN "unknown"
    ELSE IF doc.kind \in {"str", "arr"} THEN "fault"     \* "tool"["tool"]: TypeError
    ELSE IF doc.tool = "<list>" THEN "fault"             \* [..] in self.tools: TypeError
    ELSE IF doc.tool \in tools THEN "call"
    ELSE "unknown"

Block == Loads(json_matches[idx])

InLoop == pc = "dispatch" /\ idx <= Len(json_matches)

\* if user_input.lower() == "help" / "examples": answered locally.
LocalCommand ==
    /\ pc = "request"
    /\ IsCommand(user_input, "help") \/ IsCommand(user_input, "examples")
    /\ out' = Append(out, Ev(Lower(user_input[1]), 0, "", <<>>))
    /\ pc' = "return"
    /\ UNCHANGED <<lines, submitted, reads, line, docker, web, sigint, user_input, requests, content, json_matches, idx, calls, fs>>

\* openai.chat.completions.create(...) returns reply; then the regex, or the
\* display of a reply without a fence.
CallModel(replies) ==
    /\ pc = "request"
    /\ ~IsCommand(user_input, "help") /\ ~IsCommand(user_input, "examples")
    /\ requests' = Append(requests, Messages(user_input))
    /\ \E reply \in replies :
        /\ content' = reply
        /\ IF HasJsonFence(reply)
           THEN /\ json_matches' = FindAll(reply)
                /\ idx' = 1
                /\ pc' = Successor("extract")
                /\ out' = out
           ELSE /\ out' = Append(out, Ev("response", 0, "", reply))
                /\ pc' = "return"
                /\ UNCHANGED <<json_matches, idx>>
    /\ UNCHANGED <<lines, submitted, reads, line, docker, web, sigint, user_input, calls, fs>>

\* The API call raises: the outer except prints the error.
ModelFails ==
    /\ pc = "request"
    /\ ~IsCommand(user_input, "help") /\ ~IsCommand(user_input, "examples")
    /\ requests' = Append(requests, Messages(user_input))
    /\ out' = Append(out, Ev("error", 0, "", <<>>))
    /\ pc' = "return"
    /\ UNCHANGED <<lines, submitted, reads, line, docker, web, sigint, user_input, content, json_matches, idx, calls, fs>>

\* except json.JSONDecodeError: the block is reported, the loop goes on.
ParseError ==
    /\ InLoop /\ Classify(Block) = "parse_error"
    /\ out' = Append(out, Ev("parse_error", idx, "", <<>>))
    /\ idx' = idx + 1
    /\ UNCHANGED <<pc, lines, submitted, reads, line, docker, web, sigint, user_input, requests, content, json_matches, calls, fs>>

\* else: unknown tool or missing 'tool' key; the loop goes on.
UnknownTool ==
    /\ InLoop /\ Classify(Block) = "unknown"
    /\ out' = Append(out, Ev("unknown_tool", idx, "", <<>>))
    /\ idx' = idx + 1
    /\ UNCHANGED <<pc, lines, submitted, reads, line, docker, web, sigint, user_input, requests, content, json_matches, calls, fs>>

\* The test of the block raises: the outer except ends process_request.
BlockFault ==
    /\ InLoop /\ Classify(Block) = "fault"
    /\ out' = Append(out, Ev("error", idx, "", <<>>))
    /\ pc' = "return"
    /\ UNCHANGED <<lines, submitted, reads, line, docker, web, sigint, user_input, requests, content, json_matches, idx, calls, fs>>

\* tool_func(**tool_data.get("params", {})): the result is printed, or the
\* exception that leaves the call ends process_request at the outer except.
ToolCall ==
    /\ InLoop /\ Classify(Block) = "call"
    /\ LET doc == Block
           kw  == IF doc.pkind = "mapping" THEN doc.params ELSE {}
           os  == IF doc.pkind = "other" THEN {Outcome("bind", <<>>, fs)}
                  ELSE Invoke(doc.tool, kw, fs)
       IN  \E o \in os :
            /\ calls' = Append(calls, Call(idx, doc.tool, kw, o))
            /\ fs' = o.fs
            /\ IF o.status \in {"success", "error"}
               THEN /\ out' = out \o <<Ev("executing", idx, "", <<>>),
                                      Ev("tool_result", idx, o.status, <<>>)>>
                    /\ idx' = idx + 1
                    /\ pc' = pc
               ELSE /\ out' = out \o <<Ev("executing", idx, "", <<>>),
                                      Ev("error", idx, "", <<>>)>>
                    /\ pc' = "return"
                    /\ idx' = idx
    /\ UNCHANGED <<lines, submitted, reads, line, docker, web, sigint, user_input, requests, content, json_matches>>

\* The for-loop has run through its blocks.
LoopEnd ==
    /\ pc = "dispatch" /\ idx > Len(json_matches)
    /\ pc' = Successor("dispatch")
    /\ UNCHANGED <<lines, submitted, reads, line, docker, web, sigint, user_input, requests, content, json_matches, idx, out, calls, fs>>

\* Display the remaining content without JSON blocks, when there is any.
Display ==
    /\ pc = "display"
    /\ out' = IF CleanContent(content) # <<>>
              THEN Append(out, Ev("response", 0, "", CleanContent(content)))
              ELSE out
    /\ pc' = Successor("display")
    /\ UNCHANGED <<lines, submitted, reads, line, docker, web, sigint, user_input, requests, content, json_matches, idx, calls, fs>>


\* ---------------------------------------------------------------- run_interactive

\* The lines input() may return.
InputLines == {"##", " ## ", "exit", "EXIT", "quit", "Help", "hello", ""}

\* The lines input() may return as the first line of a turn: the same, and
\* the other local command.
FirstLines == InputLines \cup {"examples"}

\* str.strip() of an input line.
StripLine(l) ==
    CASE l = " ## "  -> "##"
      [] OTHER       -> l

\* "\n".join(lines).strip(), as the lines of the text: blank lines go from
\* both ends, and so does the whitespace before the first line's text.
RECURSIVE DropBlankHead(_)
DropBlankHead(ls) ==
    IF ls # <<>> /\ StripLine(Head(ls)) = "" THEN DropBlankHead(Tail(ls)) ELSE ls

RECURSIVE DropBlankTail(_)
DropBlankTail(ls) ==
    IF ls # <<>> /\ StripLine(ls[Len(ls)]) = ""
    THEN DropBlankTail(SubSeq(ls, 1, Len(ls) - 1))
    ELSE ls

JoinStrip(ls) ==
    LET body == DropBlankTail(DropBlankHead(ls))
    IN  IF body = <<>> THEN <<>> ELSE <<StripLine(body[1])>> \o Tail(body)

\* line.lower() in ["exit", "quit"]
\* The same test made after the line is appended and the turn submitted.
IsExitNever(l) == FALSE

IsExit(l) == Lower(l) \in {"exit", "quit"}

\* line.strip() == "##"
IsSentinel(l) == StripLine(l) = "##"

\* One input() and what the inner loop does with the line: the sentinel ends
\* the turn (an empty turn starts over), an exit keyword returns, any other
\* line is collected.
ReadLine ==
    /\ pc = "input"
    /\ reads < MaxReads
    /\ reads' = reads + 1
    /\ \E l \in (IF lines = <<>> THEN FirstLines ELSE InputLines) :
        /\ line' = l
        /\ IF IsSentinel(l)
           THEN /\ lines' = <<>>
                /\ IF JoinStrip(lines) = <<>>
                   THEN UNCHANGED <<pc, submitted, user_input>>
                   ELSE /\ user_input' = JoinStrip(lines)
                        /\ submitted' = Append(submitted, JoinStrip(lines))
                        /\ pc' = "request"
           ELSE IF IsExit(l)
           THEN /\ pc' = "exited"
                /\ UNCHANGED <<lines, submitted, user_input>>
           ELSE /\ lines' = Append(lines, l)
                /\ UNCHANGED <<pc, submitted, user_input>>
    /\ UNCHANGED <<requests, content, json_matches, idx, out, calls, fs, docker, web, sigint>>

\* process_request has returned: the loop starts the next turn.
NextTurn ==
    /\ pc = "return"
    /\ pc' = "input"
    /\ lines' = <<>>
    /\ UNCHANGED <<submitted, reads, line, docker, web, sigint, user_input, requests, content, json_matches, idx, out, calls, fs>>

\* process_request's `except Exception`: the exceptions it catches.
\* KeyboardInterrupt derives from BaseException and passes it.
\* The same for a clause that catches everything.
OuterCatchesAll(exc) == TRUE

OuterCatches(exc) == exc # "KeyboardInterrupt"

\* run_interactive's two except clauses: what the loop does next.
\* The same with the two clauses both leaving the loop.
LoopHandlerBreaks(exc) == "break"

LoopHandler(exc) == IF exc = "KeyboardInterrupt" THEN "break" ELSE "continue"

\* An exception reaches run_interactive's try, after `printed` is on the
\* screen: the interrupt clause prints and breaks, the other prints the
\* error and the while-loop starts its next iteration.
LoopExcept(exc, printed) ==
    IF LoopHandler(exc) = "break"
    THEN /\ out' = Append(printed, Ev("exiting", 0, exc, <<>>))
         /\ pc' = "stopped"
         /\ lines' = lines
    ELSE /\ out' = Append(printed, Ev("loop_error", 0, exc, <<>>))
         /\ pc' = "input"
         /\ lines' = <<>>

\* How many errors the loop's except clause has printed.
LoopErrors == Cardinality({e \in 1..Len(out) : out[e].kind = "loop_error"})

\* input() raises EOFError (an end-of-input key on the terminal); once in a
\* run.
InputFails ==
    /\ pc = "input"
    /\ reads < MaxReads
    /\ LoopErrors = 0
    /\ LoopExcept("EOFError", out)
    /\ UNCHANGED <<submitted, reads, line, docker, web, sigint, user_input, requests, content, json_matches, idx, calls, fs>>

\* The place of process_request an interrupt finds the program at is a
\* handler call.
InHandler == InLoop /\ Classify(Block) = "call" /\ Block.pkind # "other" /\
             Binds(Block.tool, IF Block.pkind = "mapping" THEN Block.params ELSE {})

\* An interrupt signal is delivered: KeyboardInterrupt is raised where the
\* program is, at input(), in the wait for the model's reply, inside a
\* handler call or between two statements.
Interrupt ==
    /\ pc \in {"input", "request", "dispatch", "display", "return"}
    /\ ~sigint
    /\ sigint' = TRUE
    /\ requests' = IF pc = "request" /\ ~IsCommand(user_input, "help") /\ ~IsCommand(user_input, "examples")
                   THEN Append(requests, Messages(user_input))
                   ELSE requests
    /\ calls' = IF InHandler
                THEN Append(calls, Call(idx, Block.tool,
                                        IF Block.pkind = "mapping" THEN Block.params ELSE {},
                                        Outcome("interrupt", <<>>, fs)))
                ELSE calls
    /\ IF pc \in {"request", "dispatch", "display"} /\ OuterCatches("KeyboardInterrupt")
       THEN /\ out' = Append(out, Ev("error", IF pc = "dispatch" THEN idx ELSE 0, "KeyboardInterrupt", <<>>))
            /\ pc' = "return"
            /\ lines' = lines
       ELSE LoopExcept("KeyboardInterrupt", out)
    /\ UNCHANGED <<submitted, reads, line, docker, web, user_input, content, json_matches, idx, fs>>

\* ---------------------------------------------------------------- a handler called directly

\* The values tried for one parameter of one handler.
ArgValues(tool, param) ==
    CASE tool = "file_operations" /\ param = "operation" ->
            {"read", "write", "list", "copy", "delete", "chmod", "None"}
      [] tool = "file_operations" /\ param = "path"    -> Paths \cup {"None"}
      [] tool = "file_operations" /\ param = "content" -> {"hi", SPARE, "None"}
      [] tool = "shell_command"   /\ param = "command" -> {"ls", "None", "<int>"}
      [] tool = "install_package" /\ param = "manager" -> {"pip", "apt", "yum", "None", "<list>"}
      [] tool = "install_package" /\ param = "package_name" -> {"requests", "None"}
      [] tool = "open_service" /\ param = "service_name" ->
            {"svc", "webui", "open-webui", "flowise", "", "None"}
      [] tool = "open_service" /\ param = "path"   -> {"/", "/x"}
      [] tool = "web_browse"   /\ param = "action" -> {"open", "fetch", "scroll"}
      [] tool = "docker" /\ param = "action"    -> {"run", "stop", "ps", "pull"}
      [] tool = "docker" /\ param = "image"     -> {"nginx", "", "None"}
      [] tool = "docker" /\ param = "container" -> {"c1", "None"}
      [] tool = "docker" /\ param = "ports"     -> {"<list>", "<int>"}
      [] OTHER -> {"v"}

\* The keywords tried for one handler: its parameters (for docker, the
\* four the tests of its arguments read), and for two of the handlers a
\* keyword it does not declare.
Keywords(tool) ==
    IF tool = "docker" THEN {"action", "image", "container", "ports"}
    ELSE Required(tool) \cup Optional(tool)
            \cup (IF tool \in {"shell_command", "list_services"} THEN {"extra"} ELSE {})

\* The argument mappings over the keywords K: each keyword left out or
\* given one of its values.
RECURSIVE MapsOver(_, _)
MapsOver(tool, K) ==
    IF K = {} THEN {{}}
    ELSE LET k    == CHOOSE x \in K : TRUE
             rest == MapsOver(tool, K \ {k})
         IN  rest \cup {m \cup {<<k, v>>} : m \in rest, v \in ArgValues(tool, k)}

\* The argument mappings tried for one handler.
ArgMaps(tool) == MapsOver(tool, Keywords(tool))

CallMaps(tool) == {kw \in ArgMaps(tool) : \A p \in kw : p[2] \in ArgValues(tool, p[1])}

\* tool_func(**kw), made directly.
DirectCall ==
    /\ pc = "call"
    /\ pc' = "called"
    /\ \E tool \in tools : \E kw \in CallMaps(tool) : \E o \in Invoke(tool, kw, fs) :
        /\ calls' = Append(calls, Call(0, tool, kw, o))
        /\ fs' = o.fs
    /\ UNCHANGED <<lines, submitted, reads, line, docker, web, sigint, user_input, requests, content, json_matches, idx, out>>

\* The same file operation made once more, on the filesystem the first one
\* left.
CallAgain ==
    /\ pc = "called"
    /\ calls[1].tool = "file_operations"
    /\ pc' = "recalled"
    /\ \E o \in Invoke(calls[1].tool, calls[1].kw, fs) :
        /\ calls' = Append(calls, Call(0, calls[1].tool, calls[1].kw, o))
        /\ fs' = o.fs
    /\ UNCHANGED <<lines, submitted, reads, line, docker, web, sigint, user_input, requests, content, json_matches, idx, out>>

\* check_service_health(service_name, port, path), called directly.
HealthCheck ==
    /\ pc = "call"
    /\ pc' = "called"
    /\ \E service_name \in {"svc", "open-webui", "flowise"} : \E port \in {"None", "8080"} :
        \E o \in check_service_health(docker, web, service_name, port, "/", fs) :
            /\ calls' = Append(calls, Call(0, "check_service_health",
                                           {<<"service_name", service_name>>, <<"port", port>>}, o))
            /\ fs' = o.fs
    /\ UNCHANGED <<lines, submitted, reads, line, docker, web, sigint, user_input, requests, content, json_matches, idx, out>>

\* ---------------------------------------------------------------- specifications

\* The text a reply is made of: narrative, whitespace, narrative followed by
\* whitespace, a stray fence, a stray opening fence, and whole tool-call
\* blocks.
Chunks == {<<"TXT">>, <<"WS">>, <<"TXT", "WS">>, <<"F">>, <<"F", "J">>}
              \cup {<<"F", "J", "WS", p, "WS", "F">> : p \in Payloads}

Replies == {Flatten(cs) : cs \in SeqsUpTo(Chunks, MaxSegs)}

LoopReplies ==
    {<<"TXT">>,
     <<"TXT", "F", "J", "p_bad", "F", "F", "J", "p_unknown", "F", "F", "J", "p_sh", "F">>,
     <<"F", "J", "WS", "p_sh_noarg", "WS", "F", "TXT">>,
     <<"F", "J", "WS", "p_num", "WS", "F", "TXT">>}

EmptyFs == [p \in Paths |-> "absent"]

\* The filesystems a run may start from.
FsStates ==
    {f \in [Paths -> {"absent", "dir", "hi", "yo"}] :
        /\ f[FILE] # "dir" /\ f[SPARE] \in {"absent", "hi"} /\ f[DIR] # "yo"
        /\ f[FILE] # "absent" => f[DIR] = "dir"}

\* The port lines a running container may have: one IPv4 mapping, one IPv6
\* mapping, the two for one container port, and two container ports.
PortSets ==
    {<<PortLine("80/tcp", V4)>>, <<PortLine("80/tcp", V6)>>,
     <<PortLine("80/tcp", V4), PortLine("80/tcp", V6)>>,
     <<PortLine("80/tcp", V4B), PortLine("443/tcp", V4)>>}

ContainerSet(name) ==
    {Container(name, FALSE, <<>>)} \cup {Container(name, TRUE, ps) : ps \in PortSets \cup {<<>>}}

NoDocker == [daemon |-> "ok", containers |-> <<>>]

\* The states of the container runtime a run may start from.
DockerStates ==
    {[daemon |-> dm, containers |-> <<>>] : dm \in {"ok", "fails", "missing"}}
        \cup {[daemon |-> "ok", containers |-> <<c>>] :
                  c \in ContainerSet("svc") \cup ContainerSet("open-webui")}
        \cup {[daemon |-> "ok", containers |-> <<c1, c2>>] :
                  c1 \in ContainerSet("open-webui"), c2 \in ContainerSet("svc")}

\* The lengths of the text extracted from the page.
PageLengths == {0, 1, 4999, 5000, 5001, 9999}

QuietWeb == [server |-> "ok", code |-> 200, length |-> 1]

\* The web servers a run may meet.
WebStates ==
    {[server |-> "ok", code |-> c, length |-> n] : c \in {200, 404}, n \in PageLengths}
        \cup {[server |-> sv, code |-> 200, length |-> 0] : sv \in {"refuses", "silent"}}

InitCommon ==
    /\ lines = <<>>
    /\ submitted = <<>>
    /\ reads = 0
    /\ line = ""
    /\ requests = <<>>
    /\ content = <<>>
    /\ json_matches = <<>>
    /\ idx = 0
    /\ out = <<>>
    /\ calls = <<>>
    /\ sigint = FALSE

\* One process_request(user_input).
Init ==
    /\ InitCommon
    /\ pc = "request"
    /\ user_input \in {<<"hello">>, <<"Help">>}
    /\ fs = EmptyFs
    /\ docker = NoDocker
    /\ web = QuietWeb

Next ==
    \/ LocalCommand
    \/ CallModel(Replies)
    \/ ModelFails
    \/ ParseError
    \/ UnknownTool
    \/ BlockFault
    \/ ToolCall
    \/ LoopEnd
    \/ Display

Spec == Init /\ [][Next]_vars

\* The interactive loop, from its start.
InitLoop ==
    /\ InitCommon
    /\ pc = "input"
    /\ user_input = <<>>
    /\ fs = EmptyFs
    /\ docker = NoDocker
    /\ web = QuietWeb

NextLoop ==
    \/ ReadLine
    \/ NextTurn
    \/ InputFails
    \/ Interrupt
    \/ LocalCommand
    \/ CallModel(LoopReplies)
    \/ ModelFails
    \/ ParseError
    \/ UnknownTool
    \/ BlockFault
    \/ ToolCall
    \/ LoopEnd
    \/ Display

SpecLoop == InitLoop /\ [][NextLoop]_vars

\* One handler called directly, from any filesystem, container runtime or
\* web server, and called once more.
InitCall ==
    /\ InitCommon
    /\ pc = "call"
    /\ user_input = <<>>
    /\ \/ fs \in FsStates /\ docker = NoDocker /\ web = QuietWeb
       \/ fs = EmptyFs /\ docker \in DockerStates /\ web = QuietWeb
       \/ fs = EmptyFs /\ docker = NoDocker /\ web \in WebStates
       \/ /\ fs = EmptyFs /\ web \in WebStates
          /\ docker = [daemon |-> "ok",
                       containers |-> <<Container("svc", TRUE, <<PortLine("80/tcp", V4)>>)>>]

NextCall ==
    \/ DirectCall
    \/ CallAgain
    \/ HealthCheck

SpecCall == InitCall /\ [][NextCall]_vars


\* ---------------------------------------------------------------- what is observed

\* The block of a reply names a registered tool: it parses to an object
\* whose "tool" is a key of the registry.
NamesRegistered(doc) == doc.kind = "obj" /\ doc.hasTool /\ doc.tool \in tools

\* The blocks of the reply, by position in it.
BlockDocs == [i \in 1..Len(json_matches) |-> Loads(json_matches[i])]

\* The positions of the blocks that satisfy Test, in reply order.
RECURSIVE Positions(_, _, _)
Positions(docs, Test(_), i) ==
    IF i > Len(docs) THEN <<>>
    ELSE (IF Test(docs[i]) THEN <<i>> ELSE <<>>) \o Positions(docs, Test, i + 1)

\* The blocks the printed events of some kinds are about, in print order.
RECURSIVE BlocksOf(_, _)
BlocksOf(events, kinds) ==
    IF events = <<>> THEN <<>>
    ELSE (IF Head(events).kind \in kinds THEN <<Head(events).block>> ELSE <<>>)
            \o BlocksOf(Tail(events), kinds)

CalledBlocks == [k \in 1..Len(calls) |-> calls[k].block]

Returned == pc = "return"

\* ---------------------------------------------------------------- C1

\* C1: when process_request has handled a reply with N blocks, M of which
\* parse and name a registered tool, a handler was invoked once for each of
\* the M blocks, the M tool results were printed in block order, and the
\* other N - M blocks each got one parse-error or unknown-tool report.
C1_ResultsAndReportsPerBlock ==
    Returned =>
        /\ CalledBlocks = Positions(BlockDocs, NamesRegistered, 1)
        /\ BlocksOf(out, {"tool_result"}) = Positions(BlockDocs, NamesRegistered, 1)
        /\ BlocksOf(out, {"parse_error", "unknown_tool"})
              = Positions(BlockDocs, LAMBDA d : ~NamesRegistered(d), 1)

\* ---------------------------------------------------------------- C2

\* C2: when a handler has raised, process_request still prints a
\* status=error result for that block, still handles every other block of
\* the reply, and still displays the narrative.
C2_RaiseBecomesErrorResult ==
    Returned =>
        \A k \in 1..Len(calls) :
            calls[k].status = "raise" =>
                /\ \E e \in 1..Len(out) :
                      /\ out[e].kind = "tool_result"
                      /\ out[e].block = calls[k].block
                      /\ out[e].status = "error"
                /\ \A i \in 1..Len(json_matches) :
                      \E e \in 1..Len(out) : out[e].block = i
                /\ CleanContent(content) # <<>> =>
                      \E e \in 1..Len(out) : out[e].kind = "response"

\* ---------------------------------------------------------------- C3

\* C3: every call of a handler, whatever the argument mapping, returns a
\* mapping whose status is success or error.  Stated for the calls whose
\* arguments bind, where the handler's own body runs (a call that does not
\* bind, C4's case, returns no mapping either) and which come to an end.
C3_HandlersAlwaysReturn ==
    \A k \in 1..Len(calls) :
        calls[k].tool \in tools /\ calls[k].status \notin {"bind", "blocked"} =>
            calls[k].status \in {"success", "error"}

\* ---------------------------------------------------------------- C4

\* C4: a call that omits a parameter the handler requires returns
\* status=error and takes no external action.
C4_MissingArgumentIsError ==
    \A k \in 1..Len(calls) :
        ~(Required(calls[k].tool) \subseteq Keys(calls[k].kw)) =>
            calls[k].status = "error" /\ calls[k].acts = <<>>


\* ---------------------------------------------------------------- C5

\* The blocks the for-loop has taken up so far: those it has passed, and
\* after a return the one it stopped at.
TakenUp(i) == i < idx \/ (Returned /\ i = idx)

\* How many printed events of one kind are about block i.
Reports(kind, i) == Cardinality({e \in 1..Len(out) : out[e].kind = kind /\ out[e].block = i})

\* The block's "tool" is a name (a string) that is no key of the registry.
NamesUnregistered(doc) ==
    doc.kind = "obj" /\ doc.hasTool /\ IsStr(doc.tool) /\ doc.tool \notin tools

\* C5: for every block the dispatcher has taken up whose tool name is not a
\* key of the registry, it has printed one unknown-tool report and called no
\* handler; and every handler called is the registry entry named by the
\* block it was called for.
C5_UnknownToolNeverCalled ==
    /\ \A i \in 1..Len(json_matches) :
          TakenUp(i) /\ NamesUnregistered(BlockDocs[i]) =>
              /\ Reports("unknown_tool", i) = 1
              /\ \A k \in 1..Len(calls) : calls[k].block # i
    /\ \A k \in 1..Len(calls) :
          /\ calls[k].tool \in tools
          /\ calls[k].block \in 1..Len(json_matches)
          /\ calls[k].tool = BlockDocs[calls[k].block].tool

\* A reply whose unknown-tool block was reported and whose known-tool block,
\* after it, was called.
C5_Witness ==
    /\ Returned
    /\ \E i \in 1..Len(json_matches) :
          /\ NamesUnregistered(BlockDocs[i])
          /\ Reports("unknown_tool", i) = 1
          /\ \E k \in 1..Len(calls) : calls[k].block > i /\ calls[k].status = "success"

\* ---------------------------------------------------------------- C6

\* The for-loop is at a block whose text does not parse as JSON.
AtMalformedBlock == InLoop /\ BlockDocs[idx].kind = "bad"

\* C6: the step the dispatcher takes at a block that does not parse prints
\* one parse-error report for that block and moves to the next block, and
\* changes nothing else (no handler called, no file touched, the loop not
\* left), so the later blocks are handled from the state they would be
\* handled from without it; and a reply all of whose blocks are malformed
\* ends with one report per block, no error, and its narrative displayed.
C6_ParseErrorIsLocal ==
    /\ [][AtMalformedBlock =>
            /\ out' = Append(out, Ev("parse_error", idx, "", <<>>))
            /\ idx' = idx + 1
            /\ pc' = "dispatch"
            /\ UNCHANGED <<calls, fs, json_matches, content, requests>>]_vars
    /\ [](Returned /\ json_matches # <<>>
             /\ (\A i \in 1..Len(json_matches) : BlockDocs[i].kind = "bad") =>
                /\ BlocksOf(out, {"parse_error"}) = [i \in 1..Len(json_matches) |-> i]
                /\ BlocksOf(out, {"error"}) = <<>>
                /\ idx = Len(json_matches) + 1
                /\ CleanContent(content) # <<>> => out[Len(out)].kind = "response")

\* A malformed block was reported and the block after it was called.
C6_Witness ==
    /\ Returned
    /\ \E i \in 1..Len(json_matches) :
          /\ BlockDocs[i].kind = "bad"
          /\ Reports("parse_error", i) = 1
          /\ \E k \in 1..Len(calls) : calls[k].block = i + 1 /\ calls[k].status = "success"
    /\ out[Len(out)].kind = "response"

\* ---------------------------------------------------------------- C7

\* The block parses as JSON and does not name a registered tool: it has no
\* "tool" field, or the field's value is no key of the registry.
ParsesWithoutKnownTool(doc) == doc.kind # "bad" /\ ~NamesRegistered(doc)

\* C7: for every block taken up that parses as JSON, whatever the value,
\* and has no tool field naming a registry entry, the dispatcher has printed
\* an unknown-tool report and gone on to the next block.
C7_AnyJsonWithoutToolIsReported ==
    \A i \in 1..Len(json_matches) :
        TakenUp(i) /\ ParsesWithoutKnownTool(BlockDocs[i]) =>
            Reports("unknown_tool", i) = 1 /\ i < idx


\* ---------------------------------------------------------------- C8

\* The places in the output where events of one kind stand.
At(kind) == {e \in 1..Len(out) : out[e].kind = kind}

\* The tool results stand in the order of their blocks.
ResultsInBlockOrder ==
    \A a, b \in At("tool_result") : a < b => out[a].block < out[b].block

\* C8 as the specification states it: the narrative is presented first and
\* the tool results follow it, in block order.
C8_NarrativeBeforeResults ==
    /\ \A n \in At("response") : \A r \in At("tool_result") : n < r
    /\ ResultsInBlockOrder

\* C8, amended: the tool results are printed first, in block order, each as
\* its block is dispatched, and the narrative, when one is displayed, is
\* presented after all of them.
C8_ResultsBeforeNarrative ==
    /\ \A n \in At("response") : \A r \in At("tool_result") : r < n
    /\ ResultsInBlockOrder

\* Two tool results and then the narrative.
C8_Witness ==
    /\ Returned
    /\ Cardinality(At("tool_result")) >= 2
    /\ Cardinality(At("response")) = 1
    /\ out[Len(out)].kind = "response"

\* ---------------------------------------------------------------- C9

\* The spans of the reply the dispatcher extracted its blocks from.
ExtractedSpans(s) == {<<Scan(s, 1)[k].start, Scan(s, 1)[k].stop>> : k \in 1..Len(Scan(s, 1))}

\* The text at the positions of s that lie in none of the spans.
RECURSIVE OutsideFrom(_, _, _)
OutsideFrom(s, spans, i) ==
    IF i > Len(s) THEN <<>>
    ELSE (IF \E sp \in spans : sp[1] <= i /\ i <= sp[2] THEN <<>> ELSE <<s[i]>>)
            \o OutsideFrom(s, spans, i + 1)

\* The reply with exactly the extracted spans removed.
Outside(s) == OutsideFrom(s, ExtractedSpans(s), 1)

\* The texts shown to the user as the response.
Shown == [k \in 1..Len(SelectSeq(out, LAMBDA e : e.kind = "response")) |->
             SelectSeq(out, LAMBDA e : e.kind = "response")[k].text]

\* process_request has returned from a model reply without an error.
Completed == Returned /\ requests # <<>> /\ At("error") = {}

\* C9 as the specification states it: the text shown is the reply with
\* every extracted block removed and nothing else (a reply without a fenced
\* block is shown unmodified).  Stated for the replies some text is shown for.
C9_ShownIsReplyMinusBlocks ==
    Completed /\ Shown # <<>> => Shown = <<Outside(content)>>

\* C9, amended: whenever a response is shown it is, for a reply with an
\* opening json fence, the reply with exactly the extracted blocks removed
\* and then stripped of the whitespace at both ends, and nothing is shown
\* when that is empty; a reply without an opening json fence is shown
\* unmodified.
C9_ShownIsStrippedReplyMinusBlocks ==
    /\ \A k \in 1..Len(Shown) :
          Shown[k] = IF HasJsonFence(content) THEN Strip(Outside(content)) ELSE content
    /\ Completed =>
          Shown = IF HasJsonFence(content) /\ Strip(Outside(content)) = <<>>
                  THEN <<>>
                  ELSE <<IF HasJsonFence(content) THEN Strip(Outside(content)) ELSE content>>

\* A reply with two blocks removed and whitespace stripped from the rest.
C9_Witness ==
    /\ Completed
    /\ Cardinality(ExtractedSpans(content)) = 2
    /\ Len(Shown) = 1
    /\ Shown[1] # <<>>
    /\ Shown[1] # Outside(content)


\* ---------------------------------------------------------------- C10

\* A step in which input() has returned a line.
LineRead == reads' = reads + 1

ExitWords == {"exit", "quit", "EXIT"}

SentinelLines == {"##", " ## "}

\* An exit keyword ends the loop at once: nothing is submitted, the model
\* is not called, no handler runs, and nothing happens afterwards.
ExitEndsLoop ==
    /\ LineRead /\ line' \in ExitWords =>
          pc' = "exited" /\ UNCHANGED <<submitted, user_input, requests, out, calls, fs>>
    /\ pc = "exited" => UNCHANGED vars

\* C10 as the specification states it: an exit keyword ends the loop at
\* once, and a sentinel line submits the lines accumulated since the
\* previous turn as exactly one user turn.
C10_SentinelAlwaysSubmits ==
    [][/\ ExitEndsLoop
       /\ LineRead /\ line' \in SentinelLines =>
             /\ submitted' = Append(submitted, JoinStrip(lines))
             /\ pc' = "request"]_vars

\* C10, amended: an exit keyword ends the loop at once (the lines collected
\* in the turn are never submitted and no model call is made for them); a
\* sentinel line submits the text accumulated since the previous turn as
\* exactly one user turn when that text, trimmed, is not empty, and submits
\* nothing and prompts again when it is empty.
C10_SentinelSubmitsNonEmptyTurn ==
    /\ [][/\ ExitEndsLoop
          /\ LineRead /\ line' \in SentinelLines /\ JoinStrip(lines) # <<>> =>
                /\ submitted' = Append(submitted, JoinStrip(lines))
                /\ user_input' = JoinStrip(lines)
                /\ pc' = "request"
                /\ lines' = <<>>
          /\ LineRead /\ line' \in SentinelLines /\ JoinStrip(lines) = <<>> =>
                /\ submitted' = submitted
                /\ pc' = "input"
                /\ lines' = <<>>
          /\ LineRead /\ line' \notin SentinelLines \cup ExitWords =>
                /\ lines' = Append(lines, line')
                /\ submitted' = submitted
                /\ pc' = "input"]_vars
    /\ [](/\ Len(requests) <= Len(submitted)
          /\ pc \in {"request", "dispatch", "display", "return"} => lines = <<>>
          /\ \A k \in 1..Len(submitted) : submitted[k] # <<>>)

\* After a turn of two lines was submitted and answered, an exit keyword
\* ended the loop while a line of the next turn was collected.
C10_Witness ==
    /\ pc = "exited"
    /\ lines # <<>>
    /\ Len(submitted) = 1
    /\ Len(submitted[1]) = 2
    /\ Len(requests) = 1

\* ---------------------------------------------------------------- C11

\* The step prints an error: process_request's except clause or the loop's.
FaultReported ==
    /\ Len(out') > Len(out)
    /\ out'[Len(out')].kind \in {"error", "loop_error"}

\* The step ends the interactive loop.
LoopEnds == pc \notin {"exited", "stopped"} /\ pc' \in {"exited", "stopped"}

\* C11: a step that reports a fault while no interrupt is delivered leaves
\* the loop running, and once process_request has returned the loop goes
\* back to reading input without calling the model or a handler again; the
\* loop ends only in a step that reads an exit keyword or in which an
\* interrupt is delivered.
C11_OnlyExitOrInterruptEndsLoop ==
    [][/\ FaultReported /\ ~sigint' => pc' \in {"return", "input"}
       /\ pc = "return" /\ ~sigint' => pc' = "input" /\ UNCHANGED <<requests, calls, out>>
       /\ LoopEnds => (LineRead /\ line' \in ExitWords) \/ (~sigint /\ sigint')]_vars

\* A model API error, a handler call that raised and an end of input were
\* each reported, and the loop has read a line of a later turn.
C11_Witness ==
    /\ pc = "input"
    /\ ~sigint
    /\ lines # <<>>
    /\ \E e \in 1..Len(out) : out[e].kind = "error" /\ out[e].block = 0
    /\ \E e \in 1..Len(out) : out[e].kind = "error" /\ out[e].block > 0
    /\ \E k \in 1..Len(calls) : calls[k].status \in {"bind", "raise"}
    /\ \E e \in 1..Len(out) : out[e].kind = "loop_error" /\ e < Len(out)

\* ---------------------------------------------------------------- C12

\* C12: the step in which an interrupt is delivered, wherever the program
\* is, ends the loop without printing a tool result or a response and
\* without submitting a turn; and after it nothing happens: no input is
\* read, no model call is made, no handler is invoked.
C12_InterruptEndsLoop ==
    [][/\ ~sigint /\ sigint' =>
            /\ pc' = "stopped"
            /\ out'[Len(out')].kind = "exiting"
            /\ SubSeq(out', 1, Len(out)) = out /\ Len(out') = Len(out) + 1
            /\ UNCHANGED <<submitted, reads, fs>>
       /\ sigint => UNCHANGED vars]_vars

\* The interrupt came inside a handler call of a second block, after the
\* first block's result was printed.
C12_Witness ==
    /\ pc = "stopped"
    /\ sigint
    /\ calls # <<>>
    /\ calls[Len(calls)].status = "interrupt"
    /\ \E e \in 1..Len(out) : out[e].kind \in {"parse_error", "unknown_tool"}

\* ---------------------------------------------------------------- C13

\* The calls of web_browse with action fetch that returned a page.
Fetches ==
    {k \in 1..Len(calls) : /\ calls[k].tool = "web_browse"
                           /\ Get(calls[k].kw, "action", "open") = "fetch"
                           /\ calls[k].status = "success"}

\* C13: a fetch of a page whose extracted text is longer than 5000
\* characters returns its first 5000 characters followed by the truncation
\* marker; a fetch of a text of 5000 characters or fewer returns the whole
\* text and no marker.
C13_FetchTruncatesOver5000 ==
    \A k \in Fetches :
        IF web.length > 5000
        THEN calls[k].ret.content = [taken |-> 5000, marker |-> TRUE]
        ELSE calls[k].ret.content = [taken |-> web.length, marker |-> FALSE]

\* A page of exactly 5000 characters was fetched and returned whole.
C13_Witness ==
    /\ web.length = 5000
    /\ \E k \in Fetches : calls[k].ret.content = [taken |-> 5000, marker |-> FALSE]

\* ---------------------------------------------------------------- C14

\* The calls of open_service that name a service and whose arguments bind.
ServiceCalls ==
    {k \in 1..Len(calls) : /\ calls[k].tool = "open_service"
                           /\ calls[k].status # "bind"
                           /\ Get(calls[k].kw, "service_name", "None") \notin {"None", ""}}

\* The service a call is about: webui is the open-webui service.
ServiceOf(k) ==
    IF Get(calls[k].kw, "service_name", "None") = "webui" THEN "open-webui"
    ELSE Get(calls[k].kw, "service_name", "None")

\* The containers of the runtime that declare the name.
Declaring(name) == SelectSeq(docker.containers, LAMBDA c : c.Names = name)

\* How often a call took an external action.
Times(k, act) == Cardinality({i \in 1..Len(calls[k].acts) : calls[k].acts[i] = act})

\* C14: a call for a service name that has no running container returned
\* status=error with the message that the service was not found, and
\* opened no URL.
C14_NoRunningContainerIsNotFound ==
    \A k \in ServiceCalls :
        (\A i \in 1..Len(Declaring(ServiceOf(k))) : ~Declaring(ServiceOf(k))[i].running) =>
            /\ calls[k].status = "error"
            /\ calls[k].ret.message = <<"Service", ServiceOf(k), "not found">>
            /\ Times(k, "open") = 0

\* ---------------------------------------------------------------- C15

\* C15: a call for a service whose container is found and has no port
\* mapping returned status=error with the no-port-mappings message, a call
\* for a service no container declares (the runtime answering) returned
\* status=error with the not-found message, the two messages differ for
\* every pair of names, and neither call opened a browser.
C15_NoPortsDiffersFromNotFound ==
    \A k \in ServiceCalls :
        /\ docker.daemon = "ok" /\ Declaring(ServiceOf(k)) # <<>>
                /\ Declaring(ServiceOf(k))[1].ports = <<>> =>
              /\ calls[k].status = "error"
              /\ calls[k].ret.message = <<"No port mappings for", ServiceOf(k)>>
              /\ Times(k, "open") = 0
        /\ docker.daemon = "ok" /\ Declaring(ServiceOf(k)) = <<>> =>
              /\ calls[k].status = "error"
              /\ calls[k].ret.message = <<"Service", ServiceOf(k), "not found">>
              /\ Times(k, "open") = 0
        /\ \A j \in ServiceCalls :
              <<"No port mappings for", ServiceOf(k)>> # <<"Service", ServiceOf(j), "not found">>

\* A running container without a published port was found and reported.
C15_Witness ==
    \E k \in ServiceCalls :
        /\ Declaring(ServiceOf(k)) # <<>>
        /\ Declaring(ServiceOf(k))[1].running
        /\ Declaring(ServiceOf(k))[1].ports = <<>>
        /\ calls[k].ret.message = <<"No port mappings for", ServiceOf(k)>>

\* ---------------------------------------------------------------- C16

\* The path a call hands to open_web_service: the shortcuts for open-webui
\* and flowise call it without one, which is its default.
PathOf(k) ==
    IF Get(calls[k].kw, "service_name", "None") \in {"webui", "open-webui", "flowise"} THEN "/"
    ELSE Get(calls[k].kw, "path", "/")

\* C16: a call for a service whose container is found and has a port
\* mapping opened exactly one URL, http:// followed by the host address of
\* the first mapping the runtime reported and by the path, and returned
\* status=success carrying that URL, whatever the host address looks like.
C16_FirstMappingBecomesUrl ==
    \A k \in ServiceCalls :
        docker.daemon = "ok" /\ Declaring(ServiceOf(k)) # <<>>
            /\ Declaring(ServiceOf(k))[1].ports # <<>> =>
                /\ calls[k].status = "success"
                /\ calls[k].ret.url = <<"http://">> \o Declaring(ServiceOf(k))[1].ports[1].hm
                                          \o <<PathOf(k)>>
                /\ Times(k, "open") = 1

\* ---------------------------------------------------------------- C17

\* The calls of docker_operations with action run whose image argument is
\* absent, None or empty.
RunsWithoutImage ==
    {k \in 1..Len(calls) : /\ calls[k].tool = "docker"
                           /\ Get(calls[k].kw, "action", "None") = "run"
                           /\ Get(calls[k].kw, "image", "None") \in {"None", ""}}

\* C17: docker_operations with action run and no image returned
\* status=error with the message that an image name is required, and
\* spawned no process (it took no external action at all).
C17_RunWithoutImageIsError ==
    \A k \in RunsWithoutImage :
        /\ calls[k].status = "error"
        /\ calls[k].ret.message = <<"Image name is required for run action">>
        /\ calls[k].acts = <<>>

\* A run with an empty image name, a container name and a list of ports was
\* refused.
C17_Witness ==
    \E k \in RunsWithoutImage :
        /\ Get(calls[k].kw, "image", "None") = ""
        /\ Get(calls[k].kw, "container", "None") = "c1"
        /\ Get(calls[k].kw, "ports", "None") = "<list>"
        /\ calls[k].status = "error"

\* ---------------------------------------------------------------- C18

\* The step makes a call, and the call is of the handler with this
\* operation.
FileOpStep(ops) ==
    /\ Len(calls') = Len(calls) + 1
    /\ calls'[Len(calls')].tool = "file_operations"
    /\ calls'[Len(calls')].status # "bind"
    /\ Get(calls'[Len(calls')].kw, "operation", "None") \in ops

\* C18: a read, list, copy or delete of a path that does not exist returns
\* status=error, never status=success.
C18_MissingPathIsError ==
    [][FileOpStep({"read", "list", "copy", "delete"})
          /\ Get(calls'[Len(calls')].kw, "path", "None") \in Paths
          /\ Node(fs, Get(calls'[Len(calls')].kw, "path", "None")) = "absent" =>
              calls'[Len(calls')].status = "error"]_vars

\* ---------------------------------------------------------------- C19

\* C19: against a server that accepts the connection and never answers, a
\* call of the fetch path or of the health-check path makes its HTTP
\* request with a timeout and returns a result; it does not block forever.
C19_FetchAndHealthCheckTimeOut ==
    \A k \in 1..Len(calls) :
        calls[k].tool \in {"web_browse", "check_service_health"}
            /\ Times(k, "get") + Times(k, "get timeout=5") > 0
            /\ web.server = "silent" =>
                /\ calls[k].status \in {"success", "error"}
                /\ Times(k, "get") = 0

\* ---------------------------------------------------------------- C20

\* The call is a write that returned success.
IsGoodWrite(c) ==
    /\ c.tool = "file_operations"
    /\ Get(c.kw, "operation", "None") = "write"
    /\ c.status = "success"

\* C20: a write of a text to the file whose parent directory does not exist
\* creates the directory, leaves the file holding the text and returns
\* success; and a write that returned success, made once more with the same
\* arguments, returns success again and leaves every file as it was.
C20_WriteCreatesParentsAndIsIdempotent ==
    [][/\ FileOpStep({"write"})
             /\ Get(calls'[Len(calls')].kw, "path", "None") = FILE
             /\ Get(calls'[Len(calls')].kw, "content", "None") \in {"hi", SPARE}
             /\ fs[DIR] = "absent" =>
                 /\ calls'[Len(calls')].status = "success"
                 /\ fs' = [fs EXCEPT ![DIR] = "dir",
                                     ![FILE] = Get(calls'[Len(calls')].kw, "content", "None")]
       /\ pc = "called" /\ pc' = "recalled" /\ IsGoodWrite(calls[1]) =>
                 /\ calls'[2].tool = calls[1].tool /\ calls'[2].kw = calls[1].kw
                 /\ calls'[2].status = "success"
                 /\ fs' = fs]_vars

\* The file was written into a directory the write created, and written
\* once more: it holds the text and both calls returned success.
C20_Witness ==
    /\ pc = "recalled"
    /\ IsGoodWrite(calls[1])
    /\ calls[1].acts = <<"mkdir", "write">>
    /\ Get(calls[1].kw, "path", "None") = FILE
    /\ calls[2].status = "success"
    /\ calls[2].acts = <<"write">>
    /\ fs[DIR] = "dir"
    /\ fs[FILE] = "hi"

\* ---------------------------------------------------------------- C21

\* The calls of install_package whose arguments bind and whose manager is a
\* name or None (a manager that cannot be hashed is C3's case).
Installs ==
    {k \in 1..Len(calls) : /\ calls[k].tool = "install_package"
                           /\ calls[k].status # "bind"
                           /\ Get(calls[k].kw, "manager", "pip") # "<list>"}

ManagerOf(k) == Get(calls[k].kw, "manager", "pip")

\* The call was turned down as naming an unknown manager, and ran nothing.
Unsupported(k) ==
    /\ calls[k].status = "error"
    /\ calls[k].ret.message = <<"Unknown package manager:", ManagerOf(k)>>
    /\ calls[k].acts = <<>>

\* C21 as the spec has it: a manager name outside pip, npm, brew, gem and
\* apt is a validation error and runs no install command; a manager inside
\* the set runs exactly one install command.
C21_ManagerInSetRunsExactlyOne ==
    \A k \in Installs :
        IF ManagerOf(k) \in {"pip", "npm", "brew", "gem", "apt"}
        THEN Times(k, "spawn") = 1 /\ Len(calls[k].acts) = 1
        ELSE Unsupported(k)

\* C21, amended: a manager name outside pip, npm, brew, gem and apt is a
\* validation error and runs no install command; a manager inside the set
\* makes one attempt at one install command: the command is run exactly once
\* when the package name is a string and the manager's program can be
\* started, and otherwise status=error is returned and nothing is run.  A
\* call that returned status=success ran its one command.
C21_UnknownManagerIsRefused ==
    \A k \in Installs :
        IF ManagerOf(k) \in {"pip", "npm", "brew", "gem", "apt"}
        THEN /\ calls[k].status \in {"success", "error"}
             /\ calls[k].acts \in {<<>>, <<"spawn">>}
             /\ calls[k].status = "success" => calls[k].acts = <<"spawn">>
             /\ calls[k].acts = <<>> =>
                    \/ ~IsStr(Get(calls[k].kw, "package_name", "None"))
                    \/ calls[k].ret.message = <<"No such file or directory:", ManagerOf(k)>>
             /\ ~IsStr(Get(calls[k].kw, "package_name", "None")) => calls[k].acts = <<>>
        ELSE Unsupported(k)

\* A call with the manager yum was refused, and no command was run.
C21_Witness ==
    /\ pc = "called"
    /\ 1 \in Installs
    /\ ManagerOf(1) = "yum"
    /\ Get(calls[1].kw, "package_name", "None") = "requests"
    /\ Unsupported(1)

\* ---------------------------------------------------------------- C22

\* The turn the loop handed to process_request last.
CurrentInput == submitted[Len(submitted)]

\* A request was sent to the model in this step.
RequestSent == Len(requests') = Len(requests) + 1

\* C22: every request sent to the model is two turns and no more, the system
\* prompt and then one user turn holding the text of the current input, and
\* sending it leaves the requests sent before as they were; so nothing of an
\* earlier input or reply is in a later request, and requests for the same
\* input are the same request.
C22_RequestIsPromptAndCurrentInput ==
    [][/\ requests' # requests => RequestSent
       /\ RequestSent =>
            /\ SubSeq(requests', 1, Len(requests)) = requests
            /\ Len(requests'[Len(requests')]) = 2
            /\ requests'[Len(requests')][1] = [role |-> "system", content |-> SYSTEM_PROMPT]
            /\ requests'[Len(requests')][2] = [role |-> "user", content |-> CurrentInput]
            /\ \A k \in 1..Len(requests) :
                   requests[k][2].content = CurrentInput => requests[k] = requests'[Len(requests')]
      ]_vars

\* Two turns with different texts were submitted, the first was answered by
\* the model, and the second request holds the second text alone.
C22_Witness ==
    /\ Len(submitted) = 2
    /\ submitted[1] # submitted[2]
    /\ Len(requests) = 2
    /\ content # <<>>
    /\ At("response") # {}
    /\ requests[2] = <<[role |-> "system", content |-> SYSTEM_PROMPT],
                       [role |-> "user", content |-> submitted[2]]>>

\* ---------------------------------------------------------------- C23

\* The text has an opening json fence, and no opening json fence of it is
\* followed by three more backticks: it has no complete fenced block.
OpenFenceOnly(s) ==
    /\ \E i \in 1..(Len(s) - 1) : s[i] = "F" /\ s[i + 1] = "J"
    /\ \A i \in 1..(Len(s) - 1) :
          s[i] = "F" /\ s[i + 1] = "J" => \A j \in (i + 2)..Len(s) : s[j] # "F"

\* Nothing was dispatched or reported for the reply.
NothingDispatched ==
    /\ calls = <<>>
    /\ At("tool_result") = {}
    /\ At("parse_error") = {}
    /\ At("unknown_tool") = {}
    /\ At("error") = {}

\* C23 as the spec has it: for a reply with an opening json fence and no
\* complete fenced block no handler is invoked, no parse or unknown-tool
\* report is printed, and the whole reply is displayed unmodified.
C23_OpenFenceShownUnmodified ==
    OpenFenceOnly(content) =>
        /\ NothingDispatched
        /\ Returned => Shown = <<content>>

\* C23, amended: for such a reply no handler is invoked, no parse or
\* unknown-tool report is printed, and the whole reply is displayed as
\* narrative with the whitespace at its two ends stripped and otherwise
\* unmodified.
C23_OpenFenceShownStripped ==
    OpenFenceOnly(content) =>
        /\ NothingDispatched
        /\ Shown \in {<<>>, <<Strip(content)>>}
        /\ Returned => Shown = <<Strip(content)>>

\* A reply whose opening fence is never closed and that ends in whitespace
\* was displayed without that whitespace, and nothing was dispatched.
C23_Witness ==
    /\ Returned
    /\ OpenFenceOnly(content)
    /\ content[Len(content)] = "WS"
    /\ json_matches = <<>>
    /\ calls = <<>>
    /\ Len(out) = 1
    /\ Shown = <<Strip(content)>>

\* ---------------------------------------------------------------- C24

\* The lines collected for the turn hold no text: there is none, or each is
\* empty.
Blank(ls) == \A i \in 1..Len(ls) : ls[i] = ""

\* The inputs process_request answers itself.
LocalCommands == {<<"help">>, <<"Help">>, <<"examples">>}

\* C24: a sentinel line read while the text collected before it is empty or
\* blank submits nothing: no request is sent, no handler is called, nothing
\* is printed for the turn, and the loop is at its prompt again with no line
\* collected.  The step that follows the submission of help or examples
\* sends no request and calls no handler, and unless an interrupt is
\* delivered it prints the local answer and process_request returns.  A
\* request is sent or a handler called only while the current input is
\* neither of the two.
C24_BlankTurnAndLocalCommandsStayLocal ==
    [][/\ (LineRead /\ line' \in SentinelLines /\ Blank(lines)) =>
            /\ UNCHANGED <<requests, calls, out, submitted, fs>>
            /\ pc' = "input"
            /\ lines' = <<>>
       /\ (pc = "request" /\ user_input \in LocalCommands) =>
            /\ UNCHANGED <<requests, calls, fs>>
            /\ pc' \in {"return", "stopped"}
            /\ pc' = "return" =>
                   /\ Len(out') = Len(out) + 1
                   /\ out'[Len(out')].kind \in {"help", "examples"}
                   /\ SubSeq(out', 1, Len(out)) = out
       /\ (RequestSent \/ calls' # calls) =>
            /\ submitted # <<>>
            /\ CurrentInput \notin LocalCommands
            /\ ~Blank(CurrentInput)
      ]_vars

\* A turn help and a turn examples were submitted and answered locally, in
\* five lines read, and the loop is at its prompt again; no request was sent
\* and no handler called.
C24_Witness ==
    /\ pc = "input"
    /\ lines = <<>>
    /\ reads = 5
    /\ submitted = <<<<"Help">>, <<"examples">>>>
    /\ Len(out) = 2
    /\ out[1].kind = "help"
    /\ out[2].kind = "examples"
    /\ requests = <<>>
    /\ calls = <<>>

====
